---- MODULE Spec2Model ----
(***************************************************************************)
(* Model of the starknet_getBlockWithTxHashes handler of the v05 JSON-RPC  *)
(* API (crates/rpc/src/v05/method/get_block_with_tx_hashes.rs).            *)
(*                                                                         *)
(* The handler resolves a block id either against the pending overlay      *)
(* (context.pending_data) or, inside a blocking unit of work, against the  *)
(* persisted block store through one read transaction.  The store writer   *)
(* and the pending producer are the handler's environment.                 *)
(***************************************************************************)
EXTENDS Integers, Sequences, FiniteSets, TLC

\* ------------------------------------------------------------------ bounds

\* The store holds at most MaxBlocks blocks (heights 0 .. MaxBlocks-1).
MaxBlocks == 2

\* A block carries at most MaxTxs transactions.
MaxTxs == 2

\* ------------------------------------------------------------ value spaces

\* The requests in flight.
Requests == {"r1"}

\* The hash of the i-th block the writer appends (block hashes are opaque and
\* unique, so the chain is taken up to renaming of its hashes).
HashAt(i) == 160 + i

\* The block hashes a client may ask for: one more than the store can hold, so
\* some hash is always unknown to the store.
BlockHashes == { HashAt(i) : i \in 1..(MaxBlocks + 1) }

\* Parent hash of the genesis block.
ZeroHash == 0

\* Transaction hashes of persisted blocks (unique over the chain).
TxHashes == {"t1", "t2"}

\* Transactions of the sequencer's pending block: each carries its hash.
PendingTxs == { [hash |-> "p1", kind |-> "Invoke"],
                [hash |-> "p2", kind |-> "Declare"] }

\* Sequences over S, of length at most n, without repetition.
SeqsNoRep(S, n) ==
    { s \in UNION { [1..k -> S] : k \in 0..n } :
        \A i, j \in 1..Len(s) : i # j => s[i] # s[j] }

\* Option<T>: <<>> is None, <<x>> is Some(x).
None == <<>>
Some(x) == <<x>>

\* ---------------------------------------------------------------- block ids

\* pathfinder_common::BlockId as the handler receives it.
Pending == [kind |-> "Pending"]
Latest == [kind |-> "Latest"]
Number(n) == [kind |-> "Number", number |-> n]
Hash(d) == [kind |-> "Hash", hash |-> d]

\* Every block id a request may carry; height MaxBlocks never exists.
BlockIds ==
    {Pending, Latest} \cup { Number(n) : n \in 0..MaxBlocks }
                      \cup { Hash(d) : d \in BlockHashes }

\* ------------------------------------------------------------------ errors

\* GetBlockError: the declared subset (BlockNotFound) plus Internal.
BlockNotFound == [kind |-> "BlockNotFound"]
Internal(chain) == [kind |-> "Internal", chain |-> chain]

\* The error kinds GetBlockError can hold.
GetBlockErrorKinds == {"BlockNotFound", "Internal"}

\* Result<types::Block, GetBlockError>; NoResult while the request runs.
NoResult == [tag |-> "None"]
Ok(b) == [tag |-> "Ok", block |-> b]
Err(e) == [tag |-> "Err", error |-> e]

\* The cause a failing storage call reports.
StorageFault == "storage fault"

VARIABLES
    blocks,             \* the persisted chain: blocks[i] is the block of height i-1
    l1_head,            \* highest L1-accepted height, -1 when none is recorded
    pending_configured, \* context.pending_data is Some
    pending_block,      \* the overlay's block: None or Some(pending block)
    input,              \* input[r]: the request's GetBlockInput
    pc,                 \* pc[r]: the request's position in the handler
    pending_local,      \* pending_local[r]: the overlay block the handler read
    key,                \* key[r]: the persisted-lookup key moved into the closure
    spawned,            \* spawned[r]: work was submitted to the blocking pool
    conn,               \* conn[r]: "none", "open" or "released"
    txn,                \* txn[r]: "none", "open" or "closed"
    db,                 \* db[r]: the store state the read transaction observes
    header,             \* header[r]: the header the closure found
    block_status,       \* block_status[r]: the status the closure derived
    work,               \* work[r]: the closure's return value
    fault,              \* fault[r]: the fault injected into the request, if any
    result,             \* result[r]: what the handler returned
    dropped,            \* dropped[r]: the handler's future was dropped, it never returns
    raw,                \* the JSON params of a call being deserialized
    parsed              \* what deserializing raw into GetBlockInput gave

vars == << blocks, l1_head, pending_configured, pending_block, input, pc,
           pending_local, key, spawned, conn, txn, db, header, block_status,
           work, fault, result, dropped, raw, parsed >>

\* The deserializer's state, which neither the handler nor its environment
\* touches.
wire == << raw, parsed >>


\* ------------------------------------------------- the persisted block store

\* The store as one value: what a read transaction sees.
Store == [blocks |-> blocks, l1_head |-> l1_head]

\* The writer appends the next block: fresh hash, fresh transactions, parent =
\* the current head.
AppendBlock(ts) ==
    /\ Len(blocks) < MaxBlocks
    /\ \A k \in 1..Len(ts) : \A i \in 1..Len(blocks) : \A j \in 1..Len(blocks[i].txs) :
          blocks[i].txs[j] # ts[k]
    /\ blocks' = Append(blocks,
          [ hash |-> HashAt(Len(blocks) + 1),
            parent_hash |-> IF blocks = <<>> THEN ZeroHash ELSE blocks[Len(blocks)].hash,
            txs |-> ts ])
    /\ UNCHANGED << wire, dropped, l1_head, pending_configured, pending_block, input, pc,
                    pending_local, key, spawned, conn, txn, db, header,
                    block_status, work, fault, result >>

\* The writer records that the next height was accepted on L1.
AdvanceL1 ==
    /\ l1_head + 1 < Len(blocks)
    /\ l1_head' = l1_head + 1
    /\ UNCHANGED << wire, dropped, blocks, pending_configured, pending_block, input, pc,
                    pending_local, key, spawned, conn, txn, db, header,
                    block_status, work, fault, result >>

\* The pending producer replaces the overlay's block with a new snapshot.
SetPending(ts) ==
    /\ pending_configured
    /\ blocks # <<>>
    /\ pending_block' = Some([ parent_hash |-> blocks[Len(blocks)].hash,
                               transactions |-> ts,
                               status |-> "Pending" ])
    /\ pending_block' # pending_block
    /\ UNCHANGED << wire, dropped, blocks, l1_head, pending_configured, input, pc,
                    pending_local, key, spawned, conn, txn, db, header,
                    block_status, work, fault, result >>

\* The common BlockHeader of the block at index i of the store view v.
HeaderAt(v, i) ==
    [ number |-> i - 1, hash |-> v.blocks[i].hash,
      parent_hash |-> v.blocks[i].parent_hash ]

\* The index of the block a lookup key names in the view v, if any.
BlockIndex(v, id) ==
    IF id.kind = "Latest"
    THEN IF v.blocks = <<>> THEN None ELSE Some(Len(v.blocks))
    ELSE IF id.kind = "Number"
    THEN IF id.number < Len(v.blocks) THEN Some(id.number + 1) ELSE None
    ELSE LET hit == { i \in 1..Len(v.blocks) : v.blocks[i].hash = id.hash }
         IN  IF hit = {} THEN None ELSE Some(CHOOSE i \in hit : TRUE)

\* Transaction::block_header: the header the key names, or None.
block_header(v, id) ==
    LET i == BlockIndex(v, id)
    IN  IF i = None THEN None ELSE Some(HeaderAt(v, i[1]))

\* Transaction::block_is_l1_accepted: the block exists and its height is at or
\* below the highest L1-accepted height.
block_is_l1_accepted(v, id) ==
    LET i == BlockIndex(v, id)
    IN  /\ i # None
        /\ v.l1_head >= 0
        /\ i[1] - 1 <= v.l1_head

\* Transaction::transaction_hashes_for_block: the block's transaction hashes in
\* block order, or None when the block is missing.
transaction_hashes_for_block(v, id) ==
    LET i == BlockIndex(v, id)
    IN  IF i = None THEN None ELSE Some(v.blocks[i[1]].txs)


\* ------------------------------------------------------- the reply assembler

\* v05 types::BlockHeader from a persisted header: hash and number are present.
HeaderFromCommon(h) ==
    [ block_hash |-> Some(h.hash), parent_hash |-> h.parent_hash,
      block_number |-> Some(h.number) ]

\* v05 types::BlockHeader::from_sequencer for a pending block: no hash and no
\* number yet.
HeaderFromSequencer(b) ==
    [ block_hash |-> None, parent_hash |-> b.parent_hash, block_number |-> None ]

\* types::Block::from_parts: the three parts, the transaction list as given.
from_parts(h, status, transactions) ==
    [ header |-> HeaderFromCommon(h), status |-> status,
      transactions |-> transactions ]

\* block.transactions().iter().map(|t| t.hash()).collect(): the hash of each
\* transaction, in the order of the block.
RECURSIVE CollectHashes(_)
CollectHashes(ts) ==
    IF ts = <<>> THEN <<>>
    ELSE <<Head(ts).hash>> \o CollectHashes(Tail(ts))

\* Variant of from_sequencer: the hashes collected back to front.
from_sequencer_reversed(b) ==
    [ header |-> HeaderFromSequencer(b), status |-> b.status,
      transactions |-> [ i \in 1..Len(b.transactions) |->
          b.transactions[Len(b.transactions) + 1 - i].hash ] ]

\* Variant of from_sequencer: the status of a block accepted on L2.
from_sequencer_as_l2(b) ==
    [ header |-> HeaderFromSequencer(b), status |-> "AcceptedOnL2",
      transactions |-> CollectHashes(b.transactions) ]

\* types::Block::from_sequencer: status and hashes taken from the pending block.
from_sequencer(b) ==
    [ header |-> HeaderFromSequencer(b), status |-> b.status,
      transactions |-> CollectHashes(b.transactions) ]

\* ----------------------------------------------------------------- handler

\* Variant of TryIntoStorageId: a hash is cast to the latest block.
TryIntoHashAsLatest(id) ==
    IF id.kind = "Pending" THEN None
    ELSE IF id.kind = "Hash" THEN Some(Latest) ELSE Some(id)

\* Variant of TryIntoStorageId: the cast of Latest fails too.
TryIntoLatestFails(id) ==
    IF id.kind \in {"Pending", "Latest"} THEN None ELSE Some(id)

\* BlockId -> storage BlockId (try_into): only the pending cast fails.
TryIntoStorageId(id) == IF id.kind = "Pending" THEN None ELSE Some(id)

\* Variants of PendingDisabledError: a data-level absence, and a kind outside
\* the declared subset.
PendingDisabledAsNotFound == BlockNotFound
PendingDisabledAsUndeclared == [kind |-> "PendingNotSupported"]

\* What the handler returns for Pending when pending_data is None: the anyhow
\* error converted by `?` into the Internal variant.
PendingDisabledError == Internal(<<"Pending data not supported in this configuration">>)

\* Variant of PendingEmptyError: the empty overlay reported as a fault.
PendingEmptyAsInternal == Internal(<<"Pending block missing">>)

\* What the handler returns for Pending when the overlay holds no block.
PendingEmptyError == BlockNotFound

\* Variant of HeaderMissingError: the missing header reported as a fault.
HeaderMissingAsInternal == Internal(<<"Missing block">>)

\* .ok_or(GetBlockError::BlockNotFound) on the header lookup.
HeaderMissingError == BlockNotFound

\* Variant of BlockStatusOf: the two branches swapped.
BlockStatusSwapped(l1_accepted) == IF l1_accepted THEN "AcceptedOnL2" ELSE "AcceptedOnL1"

\* if l1_accepted { AcceptedOnL1 } else { AcceptedOnL2 }
BlockStatusOf(l1_accepted) == IF l1_accepted THEN "AcceptedOnL1" ELSE "AcceptedOnL2"

\* Variant of NumberKey: the follow-up reads ask for the latest block.
LatestKey(h) == Latest

\* header.number.into(): the key of the two reads that follow the header.
NumberKey(h) == Number(h.number)

\* Variant of TxView: each read runs in a transaction of its own and sees the
\* store as it is at that moment.
LiveView(r) == Some(Store)

\* The store view the closure's reads go through: that of its one
\* transaction, which is the state fixed for it or, when none is fixed yet,
\* the store as the first read finds it.
TxView(r) == IF db[r] = None THEN Some(Store) ELSE db[r]

\* A storage error wrapped by .context(label).
WithContext(label) == Internal(<<label, StorageFault>>)

\* A storage error converted by a bare `?`.
Bare == Internal(<<StorageFault>>)

\* Variant of Return: on an error exit the transaction and the connection are
\* kept.
ReturnLeaksOnError(r, value) ==
    /\ work' = [work EXCEPT ![r] = value]
    /\ txn' = [txn EXCEPT ![r] = IF @ = "open" /\ value.tag = "Ok" THEN "closed" ELSE @]
    /\ conn' = [conn EXCEPT ![r] = IF @ = "open" /\ value.tag = "Ok" THEN "released" ELSE @]
    /\ pc' = [pc EXCEPT ![r] = "ClosureReturned"]

\* The closure's exit: its value is kept for the awaiting handler, and the
\* transaction and the connection go out of scope.
Return(r, value) ==
    /\ work' = [work EXCEPT ![r] = value]
    /\ txn' = [txn EXCEPT ![r] = IF @ = "open" THEN "closed" ELSE @]
    /\ conn' = [conn EXCEPT ![r] = IF @ = "open" THEN "released" ELSE @]
    /\ pc' = [pc EXCEPT ![r] = "ClosureReturned"]


\* The closure as a function of the store view v its transaction observes and
\* of its key k, when no storage call fails.
ClosureOn(v, k) ==
    LET h == block_header(v, k)
    IN  IF h = None THEN Err(HeaderMissingError)
        ELSE LET ts == transaction_hashes_for_block(v, NumberKey(h[1]))
                 st == BlockStatusOf(block_is_l1_accepted(v, NumberKey(h[1])))
             IN  IF ts = None THEN Err(Internal(<<"Missing block">>))
                 ELSE Ok(from_parts(h[1], st, ts[1]))

\* The handler on a non-pending id, as a function of the store view.
HandlerOn(v, id) == ClosureOn(v, TryIntoStorageId(id)[1])

\* The shared state a request only reads.
shared == << blocks, l1_head, pending_configured, pending_block >>

\* The first poll of the handler's future: let block_id = input.block_id;
Parse(r) ==
    /\ pc[r] = "Start"
    /\ ~dropped[r]
    /\ pc' = [pc EXCEPT ![r] = "ReferenceParsed"]
    /\ UNCHANGED << wire, dropped, shared, input, pending_local, key, spawned, conn, txn, db,
                    header, block_status, work, fault, result >>

\* BlockId::Pending with context.pending_data = None: ok_or_else(..)? returns.
PendingDisabled(r) ==
    /\ pc[r] = "ReferenceParsed"
    /\ input[r].block_id.kind = "Pending"
    /\ ~pending_configured
    /\ result' = [result EXCEPT ![r] = Err(PendingDisabledError)]
    /\ pc' = [pc EXCEPT ![r] = "Failed"]
    /\ UNCHANGED << wire, dropped, shared, input, pending_local, key, spawned, conn, txn, db,
                    header, block_status, work, fault >>

\* Variant of PendingRead: the handler takes the block out of the overlay.
PendingReadTakes(r) ==
    /\ pc[r] = "ReferenceParsed"
    /\ input[r].block_id.kind = "Pending"
    /\ pending_configured
    /\ ~dropped[r]
    /\ pending_local' = [pending_local EXCEPT ![r] = pending_block]
    /\ pending_block' = None
    /\ pc' = [pc EXCEPT ![r] = "PendingShortCircuit"]
    /\ UNCHANGED << wire, dropped, blocks, l1_head, pending_configured, input, key,
                    spawned, conn, txn, db, header, block_status, work, fault,
                    result >>

\* BlockId::Pending with an overlay: .block().await reads the overlay's block.
PendingRead(r) ==
    /\ pc[r] = "ReferenceParsed"
    /\ input[r].block_id.kind = "Pending"
    /\ pending_configured
    /\ ~dropped[r]
    /\ pending_local' = [pending_local EXCEPT ![r] = pending_block]
    /\ pc' = [pc EXCEPT ![r] = "PendingShortCircuit"]
    /\ UNCHANGED << wire, dropped, shared, input, key, spawned, conn, txn, db, header,
                    block_status, work, fault, result >>

\* Variant of PendingAssemble: a pending block present, the handler goes on to
\* the persisted lookup of the latest block instead of returning.
PendingFallsBackToLatest(r) ==
    /\ pc[r] = "PendingShortCircuit"
    /\ IF pending_local[r] # None
       THEN /\ key' = [key EXCEPT ![r] = Some(Latest)]
            /\ spawned' = [spawned EXCEPT ![r] = TRUE]
            /\ pc' = [pc EXCEPT ![r] = "PersistedLookupSubmitted"]
            /\ UNCHANGED result
       ELSE /\ result' = [result EXCEPT ![r] = Err(PendingEmptyError)]
            /\ pc' = [pc EXCEPT ![r] = "Failed"]
            /\ UNCHANGED << key, spawned >>
    /\ UNCHANGED << wire, dropped, shared, input, pending_local, conn, txn, db, header,
                    block_status, work, fault >>

\* Variant of PendingAssemble: the transactions are taken from a second read of
\* the overlay.
PendingAssembleRereads(r) ==
    /\ pc[r] = "PendingShortCircuit"
    /\ IF pending_local[r] # None
       THEN /\ result' = [result EXCEPT ![r] =
                  Ok([ from_sequencer(pending_local[r][1]) EXCEPT
                         !.transactions = CollectHashes(pending_block[1].transactions) ])]
            /\ pc' = [pc EXCEPT ![r] = "Done"]
       ELSE /\ result' = [result EXCEPT ![r] = Err(PendingEmptyError)]
            /\ pc' = [pc EXCEPT ![r] = "Failed"]
    /\ UNCHANGED << wire, dropped, shared, input, pending_local, key, spawned, conn, txn, db,
                    header, block_status, work, fault >>

\* Variant of PendingAssemble: an empty overlay, the handler goes on to the
\* persisted lookup of the latest block instead of failing.
PendingEmptyFallsBack(r) ==
    /\ pc[r] = "PendingShortCircuit"
    /\ IF pending_local[r] # None
       THEN /\ result' = [result EXCEPT ![r] = Ok(from_sequencer(pending_local[r][1]))]
            /\ pc' = [pc EXCEPT ![r] = "Done"]
            /\ UNCHANGED << key, spawned >>
       ELSE /\ key' = [key EXCEPT ![r] = Some(Latest)]
            /\ spawned' = [spawned EXCEPT ![r] = TRUE]
            /\ pc' = [pc EXCEPT ![r] = "PersistedLookupSubmitted"]
            /\ UNCHANGED result
    /\ UNCHANGED << wire, dropped, shared, input, pending_local, conn, txn, db, header,
                    block_status, work, fault >>

\* match on the block read: Some(block) => Ok(from_sequencer(..)),
\* None => Err(BlockNotFound).
PendingAssemble(r) ==
    /\ pc[r] = "PendingShortCircuit"
    /\ IF pending_local[r] # None
       THEN /\ result' = [result EXCEPT ![r] = Ok(from_sequencer(pending_local[r][1]))]
            /\ pc' = [pc EXCEPT ![r] = "Done"]
       ELSE /\ result' = [result EXCEPT ![r] = Err(PendingEmptyError)]
            /\ pc' = [pc EXCEPT ![r] = "Failed"]
    /\ UNCHANGED << wire, dropped, shared, input, pending_local, key, spawned, conn, txn, db,
                    header, block_status, work, fault >>

\* Variant of Submit: Latest is resolved to the height of the current head
\* before the closure is handed to the blocking pool.
SubmitResolvesLatest(r) ==
    /\ pc[r] = "ReferenceParsed"
    /\ input[r].block_id.kind # "Pending"
    /\ key' = [key EXCEPT ![r] =
          IF input[r].block_id.kind = "Latest" /\ blocks # <<>>
          THEN Some(Number(Len(blocks) - 1))
          ELSE Some(input[r].block_id)]
    /\ spawned' = [spawned EXCEPT ![r] = TRUE]
    /\ pc' = [pc EXCEPT ![r] = "PersistedLookupSubmitted"]
    /\ UNCHANGED << wire, dropped, shared, input, pending_local, conn, txn, db, header,
                    block_status, work, fault, result >>

\* other => other.try_into().expect(..), then spawn_blocking(move || ..): the
\* key is moved into the closure and the closure is handed to the blocking pool.
Submit(r) ==
    /\ pc[r] = "ReferenceParsed"
    /\ input[r].block_id.kind # "Pending"
    /\ LET k == TryIntoStorageId(input[r].block_id)
       IN  IF k = None
           THEN /\ pc' = [pc EXCEPT ![r] = "Panicked"]
                /\ UNCHANGED << key, spawned >>
           ELSE /\ key' = [key EXCEPT ![r] = k]
                /\ spawned' = [spawned EXCEPT ![r] = TRUE]
                /\ pc' = [pc EXCEPT ![r] = "PersistedLookupSubmitted"]
    /\ UNCHANGED << wire, dropped, shared, input, pending_local, conn, txn, db, header,
                    block_status, work, fault, result >>

\* storage.connection().context("Opening database connection")?
OpenConnection(r) ==
    /\ pc[r] = "PersistedLookupSubmitted"
    /\ \E fails \in BOOLEAN :
         IF fails
         THEN /\ Return(r, Err(WithContext("Opening database connection")))
              /\ fault' = [fault EXCEPT ![r] = "storage"]
         ELSE /\ conn' = [conn EXCEPT ![r] = "open"]
              /\ pc' = [pc EXCEPT ![r] = "Connected"]
              /\ UNCHANGED << txn, work, fault >>
    /\ UNCHANGED << wire, dropped, shared, input, pending_local, key, spawned, db, header,
                    block_status, result >>

\* connection.transaction().context("Creating database transaction")?: the
\* handler begins one read transaction.  Storage decides when the store state
\* the transaction observes is fixed, at the begin or at its first read; the
\* handler's code does not, so both are taken.
CreateTransaction(r) ==
    /\ pc[r] = "Connected"
    /\ \E fails, at_begin \in BOOLEAN :
         IF fails
         THEN /\ Return(r, Err(WithContext("Creating database transaction")))
              /\ fault' = [fault EXCEPT ![r] = "storage"]
              /\ UNCHANGED db
         ELSE /\ txn' = [txn EXCEPT ![r] = "open"]
              /\ db' = [db EXCEPT ![r] = IF at_begin THEN Some(Store) ELSE None]
              /\ pc' = [pc EXCEPT ![r] = "InTransaction"]
              /\ UNCHANGED << conn, work, fault >>
    /\ UNCHANGED << wire, dropped, shared, input, pending_local, key, spawned, header,
                    block_status, result >>

\* transaction.block_header(block_id).context("Reading block from database")?
\*     .ok_or(GetBlockError::BlockNotFound)?: the transaction's first read,
\* after which the state it observes is fixed.
ReadHeader(r) ==
    /\ pc[r] = "InTransaction"
    /\ \E fails \in BOOLEAN :
         IF fails
         THEN /\ Return(r, Err(WithContext("Reading block from database")))
              /\ fault' = [fault EXCEPT ![r] = "storage"]
              /\ UNCHANGED << header, db >>
         ELSE LET h == block_header(TxView(r)[1], key[r][1])
              IN  /\ db' = [db EXCEPT ![r] = TxView(r)]
                  /\ IF h = None
                     THEN /\ Return(r, Err(HeaderMissingError))
                          /\ UNCHANGED << header, fault >>
                     ELSE /\ header' = [header EXCEPT ![r] = h]
                          /\ pc' = [pc EXCEPT ![r] = "HeaderRead"]
                          /\ UNCHANGED << conn, txn, work, fault >>
    /\ UNCHANGED << wire, dropped, shared, input, pending_local, key, spawned,
                    block_status, result >>

\* let l1_accepted = transaction.block_is_l1_accepted(header.number.into())?;
\* let block_status = if l1_accepted { AcceptedOnL1 } else { AcceptedOnL2 };
CheckL1(r) ==
    /\ pc[r] = "HeaderRead"
    /\ \E fails \in BOOLEAN :
         IF fails
         THEN /\ Return(r, Err(Bare))
              /\ fault' = [fault EXCEPT ![r] = "storage"]
              /\ UNCHANGED block_status
         ELSE /\ block_status' = [block_status EXCEPT ![r] =
                    Some(BlockStatusOf(
                        block_is_l1_accepted(TxView(r)[1], NumberKey(header[r][1]))))]
              /\ pc' = [pc EXCEPT ![r] = "L1Checked"]
              /\ UNCHANGED << conn, txn, work, fault >>
    /\ UNCHANGED << wire, dropped, shared, input, pending_local, key, spawned, db, header,
                    result >>

\* transaction.transaction_hashes_for_block(header.number.into())
\*     .context("Reading transaction hashes")?.context("Missing block")?;
\* Ok(types::Block::from_parts(header, block_status, transactions))
ReadTransactionHashes(r) ==
    /\ pc[r] = "L1Checked"
    /\ \E fails \in BOOLEAN :
         IF fails
         THEN /\ Return(r, Err(WithContext("Reading transaction hashes")))
              /\ fault' = [fault EXCEPT ![r] = "storage"]
         ELSE LET ts == transaction_hashes_for_block(TxView(r)[1], NumberKey(header[r][1]))
              IN  /\ IF ts = None
                     THEN Return(r, Err(Internal(<<"Missing block">>)))
                     ELSE Return(r, Ok(from_parts(header[r][1], block_status[r][1], ts[1])))
                  /\ UNCHANGED fault
    /\ UNCHANGED << wire, dropped, shared, input, pending_local, key, spawned, db, header,
                    block_status, result >>

\* .await on the join handle of a closure that returned: its value is the
\* handler's.
Await(r) ==
    /\ pc[r] = "ClosureReturned"
    /\ ~dropped[r]
    /\ result' = [result EXCEPT ![r] = work[r]]
    /\ pc' = [pc EXCEPT ![r] = IF work[r].tag = "Ok" THEN "Done" ELSE "Failed"]
    /\ UNCHANGED << wire, dropped, shared, input, pending_local, key, spawned, conn, txn, db,
                    header, block_status, work, fault >>

\* On the blocking pool: the closure panics, or the runtime shuts down before
\* it ran.  Unwinding drops the transaction and the connection the closure
\* held; no value is left for the handler, which is still suspended at .await.
ClosurePanics(r) ==
    /\ pc[r] \in { "PersistedLookupSubmitted", "Connected", "InTransaction",
                   "HeaderRead", "L1Checked" }
    /\ fault' = [fault EXCEPT ![r] = "join"]
    /\ txn' = [txn EXCEPT ![r] = IF @ = "open" THEN "closed" ELSE @]
    /\ conn' = [conn EXCEPT ![r] = IF @ = "open" THEN "released" ELSE @]
    /\ pc' = [pc EXCEPT ![r] = "ClosureLost"]
    /\ UNCHANGED << wire, dropped, shared, input, pending_local, key, spawned, db, header,
                    block_status, work, result >>

\* Variant of JoinFailure: the failed join also ends every other request
\* whose closure is on the blocking pool.
JoinFailureTakesAll(r) ==
    /\ pc[r] = "ClosureLost"
    /\ ~dropped[r]
    /\ LET hit(q) == q = r \/ pc[q] \in { "PersistedLookupSubmitted", "Connected",
                                          "InTransaction", "HeaderRead", "L1Checked" }
       IN  /\ result' = [q \in DOMAIN result |->
                 IF hit(q)
                 THEN Err(Internal(<<"Database read panic or shutting down", "join error">>))
                 ELSE result[q]]
           /\ txn' = [q \in DOMAIN txn |-> IF hit(q) /\ txn[q] = "open" THEN "closed" ELSE txn[q]]
           /\ conn' = [q \in DOMAIN conn |->
                 IF hit(q) /\ conn[q] = "open" THEN "released" ELSE conn[q]]
           /\ pc' = [q \in DOMAIN pc |-> IF hit(q) THEN "Failed" ELSE pc[q]]
    /\ UNCHANGED << wire, dropped, shared, input, pending_local, key, spawned, db,
                    header, block_status, work, fault >>

\* .await.context("Database read panic or shutting down")?: the handler is
\* polled again after its closure was lost, gets the join error and returns.
JoinFailure(r) ==
    /\ pc[r] = "ClosureLost"
    /\ ~dropped[r]
    /\ result' = [result EXCEPT ![r] =
          Err(Internal(<<"Database read panic or shutting down", "join error">>))]
    /\ pc' = [pc EXCEPT ![r] = "Failed"]
    /\ UNCHANGED << wire, dropped, shared, input, pending_local, key, spawned, conn, txn,
                    db, header, block_status, work, fault >>

\* Cancellation: the handler's future is dropped by its caller, or with the
\* runtime it is a task of, at a point where it is not running: before its
\* first poll, or suspended at one of its two awaits, .block().await on the
\* overlay (line 29) or .await on the join handle (line 72).  It never
\* returns; a submitted closure, detached, goes on (or is lost) on the
\* blocking pool and releases what it holds.
HandlerDropped(r) ==
    /\ IF pc[r] = "Start" THEN TRUE
       ELSE IF input[r].block_id.kind = "Pending"
       THEN pc[r] = "ReferenceParsed" /\ pending_configured
       ELSE pc[r] \in { "PersistedLookupSubmitted", "Connected", "InTransaction",
                        "HeaderRead", "L1Checked", "ClosureReturned",
                        "ClosureLost" }
    /\ ~dropped[r]
    /\ dropped' = [dropped EXCEPT ![r] = TRUE]
    /\ UNCHANGED << wire, shared, input, pc, pending_local, key, spawned, conn,
                    txn, db, header, block_status, work, fault, result >>

\* ---------------------------------------------------------- input parsing

\* The JSON of a call's params, as far as the call uses it.  A string that spells
\* a hash ("0xa1") is kept as its hexadecimal digits, most significant first;
\* an object is the sequence of its members, in the order of the text.
JNull == [t |-> "null"]
JNum(n) == [t |-> "number", n |-> n]
JStr(s) == [t |-> "string", s |-> s]
JHex(ds) == [t |-> "hex", digits |-> ds]
JArr(items) == [t |-> "array", items |-> items]
JObj(members) == [t |-> "object", members |-> members]

\* Result of a deserialization; NoParse before it ran.
NoParse == [tag |-> "None"]
ParseOk(v) == [tag |-> "Ok", value |-> v]
ParseErr(why) == [tag |-> "Err", why |-> why]

\* The value of a hexadecimal digit string.
RECURSIVE HexValue(_)
HexValue(ds) ==
    IF ds = <<>> THEN 0
    ELSE 16 * HexValue(SubSeq(ds, 1, Len(ds) - 1)) + ds[Len(ds)]

\* Deserialize for BlockId: the tags "pending" and "latest", or an object of
\* exactly one member, block_number or block_hash.
BlockIdFromJson(j) ==
    IF j.t = "string"
    THEN IF j.s = "pending" THEN ParseOk(Pending)
         ELSE IF j.s = "latest" THEN ParseOk(Latest)
         ELSE ParseErr("unknown variant")
    ELSE IF j.t = "object"
    THEN IF Len(j.members) # 1 THEN ParseErr("invalid block id")
         ELSE LET name == j.members[1][1]
                  value == j.members[1][2]
              IN  IF name = "block_number"
                  THEN IF value.t = "number" THEN ParseOk(Number(value.n))
                       ELSE ParseErr("invalid type")
                  ELSE IF name = "block_hash"
                  THEN IF value.t = "hex"
                       THEN ParseOk(Hash(HexValue(value.digits)))
                       ELSE ParseErr("invalid type")
                  ELSE ParseErr("unknown variant")
    ELSE ParseErr("invalid type")

\* Variant of visit_map that skips the members it does not know.
RECURSIVE visit_map_skipping(_, _)
visit_map_skipping(members, block_id) ==
    IF members = <<>>
    THEN IF block_id = None THEN ParseErr("missing field block_id")
         ELSE ParseOk([block_id |-> block_id[1]])
    ELSE LET m == Head(members)
         IN  IF m[1] # "block_id"
             THEN visit_map_skipping(Tail(members), block_id)
             ELSE IF block_id # None THEN ParseErr("duplicate field block_id")
             ELSE LET id == BlockIdFromJson(m[2])
                  IN  IF id.tag = "Err" THEN id
                      ELSE visit_map_skipping(Tail(members), Some(id.value))

\* The derived visitor of GetBlockInput over an object, member by member:
\* block_id is the only member the struct accepts (deny_unknown_fields), it
\* is required, and it may come once.
RECURSIVE visit_map(_, _)
visit_map(members, block_id) ==
    IF members = <<>>
    THEN IF block_id = None THEN ParseErr("missing field block_id")
         ELSE ParseOk([block_id |-> block_id[1]])
    ELSE LET m == Head(members)
         IN  IF m[1] # "block_id" THEN ParseErr("unknown field")
             ELSE IF block_id # None THEN ParseErr("duplicate field block_id")
             ELSE LET id == BlockIdFromJson(m[2])
                  IN  IF id.tag = "Err" THEN id
                      ELSE visit_map(Tail(members), Some(id.value))

\* The derived visitor of GetBlockInput over an array: the fields by
\* position, and nothing after them.
visit_seq(items) ==
    IF items = <<>> THEN ParseErr("invalid length")
    ELSE LET id == BlockIdFromJson(items[1])
         IN  IF id.tag = "Err" THEN id
             ELSE IF Len(items) > 1 THEN ParseErr("invalid length")
             ELSE ParseOk([block_id |-> id.value])

\* Variant of GetBlockInputFromJson without deny_unknown_fields.
GetBlockInputSkipsUnknown(j) ==
    IF j.t = "array" THEN visit_seq(j.items)
    ELSE IF j.t = "object" THEN visit_map_skipping(j.members, None)
    ELSE ParseErr("invalid type")

\* Deserialize for GetBlockInput, from the params of a call.
GetBlockInputFromJson(j) ==
    IF j.t = "array" THEN visit_seq(j.items)
    ELSE IF j.t = "object" THEN visit_map(j.members, None)
    ELSE ParseErr("invalid type")

\* The hexadecimal digits a client writes for a block hash.
HexDigits(h) == << h \div 16, h % 16 >>

\* The ways a client may spell a block id, well or badly.
IdSpellings ==
    { JStr(s) : s \in {"pending", "latest", "earliest"} }
        \cup { JObj(<< <<"block_number", JNum(n)>> >>) : n \in 0..MaxBlocks }
        \cup { JObj(<< <<"block_hash", JHex(HexDigits(h))>> >>) :
                 h \in BlockHashes }
        \cup { JNum(0), JObj(<< <<"block_tag", JStr("latest")>> >>),
               JObj(<< <<"block_hash", JNum(0)>> >>),
               JObj(<< <<"block_hash", JHex(HexDigits(HashAt(1)))>>,
                       <<"block_number", JNum(0)>> >>) }

\* The params a client may send: a spelling by position or by name, with
\* and without a member or an element too many, and params of no use.
Params ==
    { JArr(<<e>>) : e \in IdSpellings }
        \cup { JObj(<< <<"block_id", e>> >>) : e \in IdSpellings }
        \cup { JObj(<< <<"block_id", e>>, <<"extra", JNum(0)>> >>) :
                 e \in IdSpellings }
        \cup { JObj(<< <<"block", e>> >>) : e \in IdSpellings }
        \cup { JObj(<< <<"block_id", e>>, <<"block_id", JStr("pending")>> >>) :
                 e \in IdSpellings }
        \cup { JArr(<<e, JNum(0)>>) : e \in IdSpellings }
        \cup { JArr(<<>>), JObj(<<>>), JNull, JStr("pending") }

\* The transport deserializes the params of a call.
Deserialize ==
    /\ parsed = NoParse
    /\ parsed' = GetBlockInputFromJson(raw)
    /\ UNCHANGED << raw, dropped, shared, input, pc, pending_local, key, spawned, conn,
                    txn, db, header, block_status, work, fault, result >>

\* ------------------------------------------------------------ specification

Init ==
    /\ blocks = <<>>
    /\ l1_head = -1
    /\ pending_configured \in BOOLEAN
    /\ pending_block = None
    /\ input \in [Requests -> [block_id : BlockIds]]
    /\ pc = [r \in Requests |-> "Start"]
    /\ pending_local = [r \in Requests |-> None]
    /\ key = [r \in Requests |-> None]
    /\ spawned = [r \in Requests |-> FALSE]
    /\ conn = [r \in Requests |-> "none"]
    /\ txn = [r \in Requests |-> "none"]
    /\ db = [r \in Requests |-> None]
    /\ header = [r \in Requests |-> None]
    /\ block_status = [r \in Requests |-> None]
    /\ work = [r \in Requests |-> NoResult]
    /\ fault = [r \in Requests |-> "none"]
    /\ result = [r \in Requests |-> NoResult]
    /\ dropped = [r \in Requests |-> FALSE]
    /\ raw = JNull
    /\ parsed = NoParse

Next ==
    \/ \E ts \in SeqsNoRep(TxHashes, MaxTxs) : AppendBlock(ts)
    \/ AdvanceL1
    \/ \E ts \in SeqsNoRep(PendingTxs, MaxTxs) : SetPending(ts)
    \/ \E r \in Requests :
         \/ Parse(r)
         \/ PendingDisabled(r)
         \/ PendingRead(r)
         \/ PendingAssemble(r)
         \/ Submit(r)
         \/ OpenConnection(r)
         \/ CreateTransaction(r)
         \/ ReadHeader(r)
         \/ CheckL1(r)
         \/ ReadTransactionHashes(r)
         \/ Await(r)
         \/ ClosurePanics(r)
         \/ JoinFailure(r)
         \/ HandlerDropped(r)

Spec == Init /\ [][Next]_vars

\* A step the runtime, the blocking pool or storage takes for the request r.
RequestGoesOn(r) ==
    \/ Parse(r)
    \/ PendingDisabled(r)
    \/ PendingRead(r)
    \/ PendingAssemble(r)
    \/ Submit(r)
    \/ OpenConnection(r)
    \/ CreateTransaction(r)
    \/ ReadHeader(r)
    \/ CheckL1(r)
    \/ ReadTransactionHashes(r)
    \/ Await(r)
    \/ ClosurePanics(r)
    \/ JoinFailure(r)

\* Any step of the request r.
RequestStep(r) == RequestGoesOn(r) \/ HandlerDropped(r)

\* The handler as scheduled: the runtime polls a handler it still holds, the
\* blocking pool runs (or loses) a submitted closure, storage calls return.
\* Nothing makes a handler be dropped, and nothing keeps it from being.
FairSpec == Spec /\ \A r \in Requests : WF_vars(RequestGoesOn(r))

\* A call arrives at a node that serves no request yet.
InitParse ==
    /\ blocks = <<>>
    /\ l1_head = -1
    /\ pending_configured = FALSE
    /\ pending_block = None
    /\ input = <<>>
    /\ pc = <<>>
    /\ pending_local = <<>>
    /\ key = <<>>
    /\ spawned = <<>>
    /\ conn = <<>>
    /\ txn = <<>>
    /\ db = <<>>
    /\ header = <<>>
    /\ block_status = <<>>
    /\ work = <<>>
    /\ fault = <<>>
    /\ result = <<>>
    /\ dropped = <<>>
    /\ raw \in Params
    /\ parsed = NoParse

NextParse == Deserialize

\* The deserialization of a call's params, taken alone.
SpecParse == InitParse /\ [][NextParse]_vars

\* Two requests served at the same time.
Pair == {"r1", "r2"}

\* The transactions of the i-th block of the chain the pair is served from.
TxsAt(i) == IF i = 1 THEN <<"t1", "t2">> ELSE <<>>

\* The first n blocks of that chain, as AppendBlock builds them.
ChainOf(n) ==
    [ i \in 1..n |->
        [ hash |-> HashAt(i),
          parent_hash |-> IF i = 1 THEN ZeroHash ELSE HashAt(i - 1),
          txs |-> TxsAt(i) ] ]

\* Two calls arrive at a node whose writer and pending producer are idle: the
\* store holds some prefix of the chain, accepted on L1 up to some height,
\* and the overlay, where configured, is empty or holds a block on the head.
InitPair ==
    /\ \E n \in 0..MaxBlocks : blocks = ChainOf(n)
    /\ l1_head \in -1..(Len(blocks) - 1)
    /\ pending_configured \in BOOLEAN
    /\ pending_block \in
          {None} \cup
          IF pending_configured /\ blocks # <<>>
          THEN { Some([ parent_hash |-> blocks[Len(blocks)].hash,
                        transactions |-> ts,
                        status |-> "Pending" ]) :
                   ts \in SeqsNoRep(PendingTxs, MaxTxs) }
          ELSE {}
    /\ input \in [Pair -> [block_id : BlockIds]]
    /\ pc = [r \in Pair |-> "Start"]
    /\ pending_local = [r \in Pair |-> None]
    /\ key = [r \in Pair |-> None]
    /\ spawned = [r \in Pair |-> FALSE]
    /\ conn = [r \in Pair |-> "none"]
    /\ txn = [r \in Pair |-> "none"]
    /\ db = [r \in Pair |-> None]
    /\ header = [r \in Pair |-> None]
    /\ block_status = [r \in Pair |-> None]
    /\ work = [r \in Pair |-> NoResult]
    /\ fault = [r \in Pair |-> "none"]
    /\ result = [r \in Pair |-> NoResult]
    /\ dropped = [r \in Pair |-> FALSE]
    /\ raw = JNull
    /\ parsed = NoParse

NextPair == \E r \in Pair : RequestStep(r)

\* The handler serving two calls, their steps interleaved in any order.
SpecPair == InitPair /\ [][NextPair]_vars

\* Two calls arrive at a node that holds the whole chain, its genesis block
\* accepted on L1, writer and pending producer idle.
InitPairWhole ==
    /\ InitPair
    /\ Len(blocks) = MaxBlocks
    /\ l1_head = 0

\* The two calls as scheduled: the runtime polls a handler it still holds, the
\* blocking pool runs (or loses) a submitted closure, storage calls return.
FairPair ==
    /\ InitPairWhole /\ [][NextPair]_vars
    /\ \A r \in Pair : WF_vars(RequestGoesOn(r))

\* ------------------------------------------------------------------ claims

\* The request has returned.
Terminal(r) == pc[r] \in {"Done", "Failed"}

\* The request asks for the pending block.
AsksPending(r) == input[r].block_id.kind = "Pending"

\* The block at index i of the store state v, as the API replies it.
BlockOf(v, i) ==
    [ header |-> [ block_hash |-> <<v.blocks[i].hash>>,
                   parent_hash |-> IF i = 1 THEN ZeroHash ELSE v.blocks[i - 1].hash,
                   block_number |-> <<i - 1>> ],
      status |-> IF i - 1 <= v.l1_head THEN "AcceptedOnL1" ELSE "AcceptedOnL2",
      transactions |-> v.blocks[i].txs ]

\* No block of the store state v answers to the id (a height or a hash).
Absent(v, id) ==
    IF id.kind = "Number" THEN id.number >= Len(v.blocks)
    ELSE \A i \in 1..Len(v.blocks) : v.blocks[i].hash # id.hash

\* C1 as stated: a Pending request without a configured overlay ends with the
\* error kind PendingNotSupported.
C1_PendingNotSupportedKind ==
    \A r \in Requests :
        (Terminal(r) /\ AsksPending(r) /\ ~pending_configured)
            => /\ result[r].tag = "Err"
               /\ result[r].error.kind = "PendingNotSupported"

\* C1 amended: a Pending request without a configured overlay ends with the
\* Internal error "Pending data not supported in this configuration"; it never
\* ends with BlockNotFound or a reply, and it never reads the overlay or the
\* store.
C1_PendingDisabledIsInternal ==
    \A r \in Requests :
        (AsksPending(r) /\ ~pending_configured)
            => /\ pc[r] \in {"Start", "ReferenceParsed", "Failed"}
               /\ Terminal(r) =>
                    /\ result[r].tag = "Err"
                    /\ result[r].error.kind = "Internal"
                    /\ result[r].error.chain =
                          <<"Pending data not supported in this configuration">>

\* C1 witness: a Pending request has returned on a node without an overlay.
C1_Witness ==
    \E r \in Requests : Terminal(r) /\ AsksPending(r) /\ ~pending_configured

\* C2: a Pending request that read an overlay holding no block ends with
\* BlockNotFound: never with Internal, never with a reply.
C2_EmptyOverlayIsNotFound ==
    \A r \in Requests :
        (Terminal(r) /\ AsksPending(r) /\ pending_configured /\ pending_local[r] = None)
            => /\ pc[r] = "Failed"
               /\ result[r] = Err(BlockNotFound)

\* C2 witness: a Pending request has returned after reading an empty overlay.
C2_Witness ==
    \E r \in Requests :
        /\ pc[r] = "Failed" /\ AsksPending(r)
        /\ pending_configured /\ pending_local[r] = None

\* C3: a request by height or by hash whose read transaction observes no such
\* block, and that met no storage or worker fault, ends with BlockNotFound.
C3_UnknownBlockIsNotFound ==
    \A r \in Requests :
        ( /\ Terminal(r)
          /\ input[r].block_id.kind \in {"Number", "Hash"}
          /\ fault[r] = "none"
          /\ db[r] # None
          /\ Absent(db[r][1], input[r].block_id) )
            => /\ pc[r] = "Failed"
               /\ result[r] = Err(BlockNotFound)

\* C3 witness: a request by hash has returned, without a fault, from a
\* transaction on a non-empty store that holds no block of that hash.
C3_Witness ==
    \E r \in Requests :
        /\ Terminal(r) /\ input[r].block_id.kind = "Hash"
        /\ fault[r] = "none" /\ db[r] # None
        /\ db[r][1].blocks # <<>>
        /\ Absent(db[r][1], input[r].block_id)

\* C4: a reply of the persisted path for height h has status AcceptedOnL1
\* exactly when h is at or below the highest L1-accepted height the transaction
\* observes, and AcceptedOnL2 exactly when h is above it.
C4_StatusFollowsL1Head ==
    \A r \in Requests :
        (pc[r] = "Done" /\ ~AsksPending(r))
            => LET h == result[r].block.header.block_number[1]
                   top == db[r][1].l1_head
               IN  /\ (result[r].block.status = "AcceptedOnL1") <=> (h <= top)
                   /\ (result[r].block.status = "AcceptedOnL2") <=> (h > top)

\* C4 witness: a reply for the highest L1-accepted height itself, above
\* genesis, while a block above it exists.
C4_Witness ==
    \E r \in Requests :
        /\ pc[r] = "Done" /\ ~AsksPending(r)
        /\ result[r].block.header.block_number[1] = db[r][1].l1_head
        /\ Len(db[r][1].blocks) > db[r][1].l1_head + 1

\* C5: a reply of the persisted path is, as a whole, one block of the one store
\* state its read transaction observed: header, status and transaction hashes
\* all come from that state, whatever the writer did meanwhile.
C5_ReplyFromOneStoreState ==
    \A r \in Requests :
        (pc[r] = "Done" /\ ~AsksPending(r))
            => /\ txn[r] = "closed"
               /\ \E i \in 1..Len(db[r][1].blocks) :
                     result[r].block = BlockOf(db[r][1], i)

\* C5 witness: a reply whose block the writer has since moved onto L1, so that
\* the store at the time of the return would give another status.
C5_Witness ==
    \E r \in Requests :
        /\ pc[r] = "Done" /\ ~AsksPending(r)
        /\ result[r].block.status = "AcceptedOnL2"
        /\ result[r].block.header.block_number[1] <= l1_head
        /\ Len(blocks) > Len(db[r][1].blocks)


\* C6: a reply to a request by height equals what the handler gives, on the
\* same store state, for the hash of that block, and a reply to a request by
\* hash equals what it gives for the height of that block; on every store state
\* the two lookups of every block agree.
C6_NumberAndHashAgree ==
    /\ \A r \in Requests :
          (pc[r] = "Done" /\ input[r].block_id.kind \in {"Number", "Hash"})
              => LET v == db[r][1]
                     id == input[r].block_id
                 IN  \A i \in 1..Len(v.blocks) :
                        /\ (id.kind = "Number" /\ id.number = i - 1)
                              => result[r] = HandlerOn(v, Hash(v.blocks[i].hash))
                        /\ (id.kind = "Hash" /\ id.hash = v.blocks[i].hash)
                              => result[r] = HandlerOn(v, Number(i - 1))
    /\ \A i \in 1..Len(blocks) :
          /\ HandlerOn(Store, Number(i - 1)) = HandlerOn(Store, Hash(blocks[i].hash))
          /\ HandlerOn(Store, Number(i - 1)).tag = "Ok"

\* C6 witness: a reply to a request by the hash of a block that is not the
\* latest block of the store state the transaction observed.
C6_Witness ==
    \E r \in Requests :
        /\ pc[r] = "Done" /\ input[r].block_id.kind = "Hash"
        /\ \E i \in 1..Len(db[r][1].blocks) :
              /\ db[r][1].blocks[i].hash = input[r].block_id.hash
              /\ i < Len(db[r][1].blocks)

\* C7: the transactions of a reply are the transaction hashes of its source
\* block, position by position: those of the block the header names on the
\* persisted path, those of the overlay block read on the pending path.
C7_TransactionOrderKept ==
    \A r \in Requests :
        pc[r] = "Done"
            => LET out == result[r].block.transactions
               IN  IF AsksPending(r)
                   THEN LET src == pending_local[r][1].transactions
                        IN  /\ Len(out) = Len(src)
                            /\ \A i \in 1..Len(src) : out[i] = src[i].hash
                   ELSE LET src == db[r][1].blocks[header[r][1].number + 1].txs
                        IN  /\ Len(out) = Len(src)
                            /\ \A i \in 1..Len(src) : out[i] = src[i]

\* C7 witness: a reply to a Pending request whose block holds two transactions.
C7_Witness ==
    \E r \in Requests :
        /\ pc[r] = "Done" /\ AsksPending(r)
        /\ Len(result[r].block.transactions) = 2

\* C8: a Pending request never submits work to the blocking pool and never
\* opens a connection or a read transaction; when the overlay it read holds a
\* block it ends with the reply built from that block.
C8_PendingShortCircuits ==
    \A r \in Requests :
        AsksPending(r)
            => /\ ~spawned[r]
               /\ conn[r] = "none" /\ txn[r] = "none" /\ db[r] = None
               /\ pc[r] \in {"Start", "ReferenceParsed", "PendingShortCircuit",
                             "Done", "Failed"}
               /\ (Terminal(r) /\ pending_local[r] # None)
                     => /\ pc[r] = "Done"
                        /\ result[r].tag = "Ok"
                        /\ result[r].block.header.parent_hash =
                              pending_local[r][1].parent_hash
                        /\ result[r].block.header.block_hash = None
                        /\ result[r].block.status = pending_local[r][1].status
                        /\ Len(result[r].block.transactions) =
                              Len(pending_local[r][1].transactions)

\* C8 witness: a Pending request has returned a reply while the store holds
\* blocks it could have read.
C8_Witness ==
    \E r \in Requests :
        /\ pc[r] = "Done" /\ AsksPending(r)
        /\ pending_local[r] # None
        /\ Len(blocks) = MaxBlocks

\* C9: a request that failed carries an error of the declared subset:
\* BlockNotFound, or the catch-all Internal.
C9_ErrorInDeclaredSubset ==
    \A r \in Requests :
        pc[r] = "Failed"
            => /\ result[r].tag = "Err"
               /\ result[r].error.kind \in GetBlockErrorKinds

\* C9 witness: a Pending request failed on a node without an overlay, the case
\* for which the vocabulary has a kind outside the subset.
C9_Witness ==
    \E r \in Requests :
        /\ pc[r] = "Failed" /\ AsksPending(r) /\ ~pending_configured
        /\ result[r].error.kind = "Internal"

\* C10: a reply to a request by height h carries block number h, a reply to a
\* request by hash d carries block hash d, and header, status and transaction
\* list are those of that one block in the store state observed.
C10_ReplyMatchesIdentifier ==
    \A r \in Requests :
        (pc[r] = "Done" /\ ~AsksPending(r))
            => LET b == result[r].block
                   v == db[r][1]
                   id == input[r].block_id
                   n == b.header.block_number[1]
               IN  /\ id.kind = "Number" => b.header.block_number = <<id.number>>
                   /\ id.kind = "Hash" => b.header.block_hash = <<id.hash>>
                   /\ n + 1 \in 1..Len(v.blocks)
                   /\ b.header.block_hash = <<v.blocks[n + 1].hash>>
                   /\ b.transactions = v.blocks[n + 1].txs
                   /\ b.status = IF n <= v.l1_head THEN "AcceptedOnL1" ELSE "AcceptedOnL2"

\* C10 witness: a reply to a request by height for a block below the latest
\* one, the two blocks holding different transactions.
C10_Witness ==
    \E r \in Requests :
        /\ pc[r] = "Done" /\ input[r].block_id.kind = "Number"
        /\ input[r].block_id.number + 2 = Len(db[r][1].blocks)
        /\ result[r].block.transactions # <<>>


\* C11: a Latest request carries the unresolved key Latest into the closure;
\* its reply is the block of highest height in the store state its read
\* transaction observes, whatever was appended before the transaction began,
\* and it ends with BlockNotFound only when that state holds no block.
C11_LatestResolvedInTransaction ==
    \A r \in Requests :
        input[r].block_id.kind = "Latest"
            => /\ spawned[r] => key[r] = Some(Latest)
               /\ pc[r] = "Done"
                    => result[r].block = BlockOf(db[r][1], Len(db[r][1].blocks))
               /\ (Terminal(r) /\ fault[r] = "none" /\ db[r][1].blocks # <<>>)
                    => pc[r] = "Done"
               /\ (Terminal(r) /\ result[r] = Err(BlockNotFound))
                    => db[r][1].blocks = <<>>

\* C11 witness: a Latest request has returned the second block of a store that
\* was empty when the request arrived.
C11_Witness ==
    \E r \in Requests :
        /\ pc[r] = "Done" /\ input[r].block_id.kind = "Latest"
        /\ result[r].block.header.block_number = <<1>>
        /\ result[r].block.transactions # <<>>


\* C13: the closure holds a connection and a transaction of its own while it
\* reads, and holds neither once it has finished: after a reply, after
\* BlockNotFound and after a fault at any step, no connection is open and no
\* transaction is open.
C13_ResourcesReleased ==
    \A r \in Requests :
        /\ pc[r] \in {"ClosureReturned", "ClosureLost", "Done", "Failed"}
              => /\ conn[r] \in {"none", "released"}
                 /\ txn[r] \in {"none", "closed"}
        /\ pc[r] = "Connected" => (conn[r] = "open" /\ txn[r] = "none")
        /\ pc[r] \in {"InTransaction", "HeaderRead", "L1Checked"}
              => (conn[r] = "open" /\ txn[r] = "open")
        /\ (pc[r] = "Done" /\ ~AsksPending(r))
              => (conn[r] = "released" /\ txn[r] = "closed")

\* C13 witness: a request failed on a storage fault that came after the header
\* had been read inside the open transaction.
C13_Witness ==
    \E r \in Requests :
        /\ pc[r] = "Failed" /\ fault[r] = "storage"
        /\ header[r] # None
        /\ txn[r] = "closed" /\ conn[r] = "released"

\* C17: the cast to a lookup key is reached only with a non-pending id and
\* never fails: Latest, a height and a hash each give the corresponding key,
\* every submitted closure carries the key of its request's id, and no request
\* panics.
C17_CastNeverFails ==
    /\ \A id \in BlockIds \ {Pending} : TryIntoStorageId(id) = Some(id)
    /\ \A r \in Requests :
          /\ pc[r] # "Panicked"
          /\ spawned[r] => ( /\ ~AsksPending(r)
                             /\ key[r] = Some(input[r].block_id) )
          /\ AsksPending(r) => key[r] = None

\* C17 witness: the closure of a Latest request was submitted with its key.
C17_Witness ==
    \E r \in Requests :
        /\ spawned[r] /\ input[r].block_id.kind = "Latest"
        /\ pc[r] = "PersistedLookupSubmitted"

\* C18: a reply to a Pending request carries the status of the overlay block
\* it read, Pending, never AcceptedOnL1 or AcceptedOnL2, and the request never
\* derived a status from the L1 fact of the store, whatever its value.
C18_PendingStatusFromSnapshot ==
    \A r \in Requests :
        AsksPending(r)
            => /\ block_status[r] = None
               /\ pc[r] = "Done"
                    => /\ result[r].block.status = pending_local[r][1].status
                       /\ result[r].block.status = "Pending"
                       /\ result[r].block.status \notin {"AcceptedOnL1", "AcceptedOnL2"}

\* C18 witness: a reply to a Pending request on a node whose store holds a
\* block accepted on L1 and a block above it.
C18_Witness ==
    \E r \in Requests :
        /\ pc[r] = "Done" /\ AsksPending(r)
        /\ l1_head >= 0 /\ Len(blocks) > l1_head + 1

\* The reply the pending block b stands for.
PendingReplyOf(b) ==
    [ header |-> [ block_hash |-> <<>>, parent_hash |-> b.parent_hash,
                   block_number |-> <<>> ],
      status |-> "Pending",
      transactions |-> [ i \in 1..Len(b.transactions) |-> b.transactions[i].hash ] ]

\* C20: a reply to a Pending request is, as a whole, the reply of the one
\* overlay block the handler read: header, status and transaction hashes all
\* come from it, also when the producer has replaced the overlay meanwhile.
C20_PendingReplyFromOneSnapshot ==
    \A r \in Requests :
        (pc[r] = "Done" /\ AsksPending(r))
            => /\ pending_local[r] # None
               /\ result[r].block = PendingReplyOf(pending_local[r][1])

\* C20 witness: a reply to a Pending request, the overlay now holding a block
\* of another parent and of other transactions than the one replied.
C20_Witness ==
    \E r \in Requests :
        /\ pc[r] = "Done" /\ AsksPending(r)
        /\ pending_block # None
        /\ pending_block[1].parent_hash # result[r].block.header.parent_hash
        /\ Len(pending_block[1].transactions) # Len(result[r].block.transactions)


\* The storage step at which the closure of r met its fault, read off what the
\* closure had acquired and read by then.
FaultStep(r) ==
    IF conn[r] = "none" THEN "connection"
    ELSE IF txn[r] = "none" THEN "transaction"
    ELSE IF header[r] = None THEN "header"
    ELSE IF block_status[r] = None THEN "l1"
    ELSE "transactions"

\* The context labels of the handler, by storage step.
StepLabels ==
    [ connection |-> {"Opening database connection"},
      transaction |-> {"Creating database transaction"},
      header |-> {"Reading block from database"},
      l1 |-> {},
      transactions |-> {"Reading transaction hashes"} ]

\* C15 as stated: a storage fault at any of the five storage steps fails the
\* request with Internal, and the error carries, on top of the storage cause,
\* a context label that tells the step.
C15_EveryFaultLabelled ==
    \A r \in Requests :
        (Terminal(r) /\ fault[r] = "storage")
            => /\ pc[r] = "Failed"
               /\ result[r].tag = "Err"
               /\ result[r].error.kind = "Internal"
               /\ Len(result[r].error.chain) >= 2
               /\ FaultStep(r) # "l1"
                     => result[r].error.chain[1] \in StepLabels[FaultStep(r)]


\* What belongs to the request r alone.
Local(r) ==
    << input[r], pc[r], pending_local[r], key[r], spawned[r], conn[r], txn[r],
       db[r], header[r], block_status[r], work[r], fault[r], result[r] >>

\* The moves of a request between the states of its life; the inside of the
\* closure counts as PersistedLookupSubmitted.
Phase(p) ==
    IF p \in { "Connected", "InTransaction", "HeaderRead", "L1Checked",
               "ClosureReturned", "ClosureLost" }
    THEN "PersistedLookupSubmitted" ELSE p

PhaseMoves ==
    { <<"Start", "ReferenceParsed">>,
      <<"ReferenceParsed", "PendingShortCircuit">>,
      <<"ReferenceParsed", "PersistedLookupSubmitted">>,
      <<"PendingShortCircuit", "Done">>,
      <<"PendingShortCircuit", "Failed">>,
      <<"PersistedLookupSubmitted", "Done">>,
      <<"PersistedLookupSubmitted", "Failed">> }

\* What holds of a request in every state: a reply exactly when Done, an
\* error exactly when Failed, no outcome before, and one route only.
LifecycleFacts ==
    \A r \in Requests :
        /\ pc[r] = "Done" => result[r].tag = "Ok"
        /\ pc[r] = "Failed" => result[r].tag = "Err"
        /\ ~Terminal(r) => result[r] = NoResult
        /\ Terminal(r) => (spawned[r] <=> ~AsksPending(r))
        /\ spawned[r] => pending_local[r] = None

\* C16 as stated: a request goes from Start to ReferenceParsed, then to
\* exactly one of PendingShortCircuit and PersistedLookupSubmitted, then to
\* exactly one terminal state, Done with a reply or Failed with one error.
\* Once terminal it takes no further step, and with the pool running the
\* closure and storage calls returning it does become terminal.
C16_AlwaysTerminal ==
    /\ [][ \A r \in Requests :
              /\ Phase(pc'[r]) # Phase(pc[r])
                    => <<Phase(pc[r]), Phase(pc'[r])>> \in PhaseMoves
              /\ Terminal(r) => Local(r)' = Local(r) ]_vars
    /\ []LifecycleFacts
    /\ \A r \in Requests : <>Terminal(r)

\* C16, amended: a request goes from Start to ReferenceParsed; a Pending
\* request on a node without overlay fails there at once; any other request
\* takes exactly one of the two routes and then reaches exactly one terminal
\* state, Done with a reply or Failed with one error.  Once terminal it takes
\* no further step.  With the pool running the closure and storage calls
\* returning, every request whose handler is not dropped (by its caller or by
\* the runtime shutting down, before its first poll or at an await) does
\* become terminal.
C16_RequestLifecycle ==
    /\ [][ \A r \in Requests :
              /\ Phase(pc'[r]) # Phase(pc[r])
                    => \/ <<Phase(pc[r]), Phase(pc'[r])>> \in PhaseMoves
                       \/ /\ pc[r] = "ReferenceParsed" /\ pc'[r] = "Failed"
                          /\ AsksPending(r) /\ ~pending_configured
              /\ Terminal(r) => (Local(r)' = Local(r) /\ ~dropped'[r]) ]_vars
    /\ []LifecycleFacts
    /\ \A r \in Requests : <>(Terminal(r) \/ dropped[r])

\* C16 witness: a request has reached Done through the submitted persisted
\* lookup, its handler polled to the end.
C16_Witness ==
    \E r \in Requests :
        pc[r] = "Done" /\ spawned[r] /\ work[r].tag = "Ok" /\ ~dropped[r]

\* The well-formed spellings of a block id, each with the id it stands for.
Spelled ==
    { <<JStr("pending"), Pending>>, <<JStr("latest"), Latest>> }
        \cup { << JObj(<< <<"block_number", JNum(n)>> >>), Number(n) >> :
                 n \in 0..MaxBlocks }
        \cup { << JObj(<< <<"block_hash", JHex(HexDigits(h))>> >>), Hash(h) >> :
                 h \in BlockHashes }

\* The params carry a member other than block_id.
HasUnknownField(j) ==
    /\ j.t = "object"
    /\ \E i \in 1..Len(j.members) : j.members[i][1] # "block_id"

\* C12: a well-formed block id sent by position and the same id sent under
\* the name block_id deserialize to the same input, which carries the id
\* spelled; params with a member other than block_id are rejected.
C12_PositionalAndNamedAgree ==
    /\ \A p \in Spelled :
          /\ GetBlockInputFromJson(JArr(<<p[1]>>))
                = GetBlockInputFromJson(JObj(<< <<"block_id", p[1]>> >>))
          /\ raw \in {JArr(<<p[1]>>), JObj(<< <<"block_id", p[1]>> >>)}
                /\ parsed # NoParse
                => parsed = ParseOk([block_id |-> p[2]])
    /\ HasUnknownField(raw) /\ parsed # NoParse => parsed.tag = "Err"

\* A call naming a block by its hash under block_id has been deserialized
\* to that hash.
C12_Witness ==
    /\ raw = JObj(<< <<"block_id",
                       JObj(<< <<"block_hash", JHex(HexDigits(HashAt(2)))>> >>)>> >>)
    /\ parsed = ParseOk([block_id |-> Hash(HashAt(2))])


\* The index, in the store state v, of the block the id names.
IndexOf(v, id) ==
    IF id.kind = "Latest" THEN Len(v.blocks)
    ELSE IF id.kind = "Number" THEN id.number + 1
    ELSE CHOOSE i \in 1..Len(v.blocks) : v.blocks[i].hash = id.hash

\* What the request r gets when it is served alone from the node's present
\* store and overlay.
Alone(r) ==
    LET id == input[r].block_id
    IN  IF id.kind = "Pending"
        THEN IF ~pending_configured
             THEN Err(Internal(<<"Pending data not supported in this configuration">>))
             ELSE IF pending_block = None THEN Err(BlockNotFound)
             ELSE Ok(PendingReplyOf(pending_block[1]))
        ELSE IF IF id.kind = "Latest" THEN blocks = <<>> ELSE Absent(Store, id)
             THEN Err(BlockNotFound)
             ELSE Ok(BlockOf(Store, IndexOf(Store, id)))

\* What holds of a request r whose closure was lost, and of the other
\* request: r holds no connection and no transaction and has no closure
\* value; its outcome is none while it has not resumed, and then Failed with
\* an Internal error whose chain starts with "Database read panic or shutting
\* down"; the other request, when it met no fault, ends with what it gets
\* when served alone.
JoinFailureFacts ==
    \A r \in Pair :
        fault[r] = "join"
            => /\ pc[r] \in {"ClosureLost", "Failed"}
               /\ conn[r] # "open" /\ txn[r] # "open"
               /\ work[r] = NoResult
               /\ pc[r] = "ClosureLost" => result[r] = NoResult
               /\ pc[r] = "Failed"
                     => /\ result[r].tag = "Err"
                        /\ result[r].error.kind = "Internal"
                        /\ Head(result[r].error.chain)
                              = "Database read panic or shutting down"
               /\ \A q \in Pair \ {r} :
                     Terminal(q) /\ fault[q] = "none" => result[q] = Alone(q)

\* C14 as stated: a request whose closure panicked, or was lost at shutdown,
\* ends Failed with an Internal error ("Database read panic or shutting
\* down"), never BlockNotFound and never a success, and is never left without
\* that outcome; a request served meanwhile is not affected.
C14_NeverWithoutOutcome ==
    /\ []JoinFailureFacts
    /\ \A r \in Pair : (fault[r] = "join") ~> (pc[r] = "Failed")

\* C14, amended: a request whose closure panicked, or was lost at shutdown,
\* gets no outcome but Failed with an Internal error ("Database read panic or
\* shutting down"), never BlockNotFound and never a success, and it does get
\* it unless its handler is dropped at the await (by its caller or by the
\* runtime shutting down) before it resumes; a request served meanwhile is
\* not affected.
C14_JoinFailureIsolated ==
    /\ []JoinFailureFacts
    /\ \A r \in Pair : (fault[r] = "join") ~> (pc[r] = "Failed" \/ dropped[r])

\* C14 witness: one request lost its closure while its transaction was open,
\* resumed and failed, and the other request has replied a block read from
\* the store.
C14_Witness ==
    \E r, q \in Pair :
        /\ fault[r] = "join" /\ txn[r] = "closed" /\ pc[r] = "Failed" /\ ~dropped[r]
        /\ pc[q] = "Done" /\ spawned[q] /\ result[q].block.transactions # <<>>

\* C19: no step of a request changes the store (blocks, transaction lists,
\* L1 head) or the overlay, on any path, and a request that met no fault ends
\* with what it gets when served alone, whatever the other request did.
C19_ReadOnlyAndIndependent ==
    /\ [][shared' = shared]_vars
    /\ [] ( \A r \in Pair :
              Terminal(r) /\ fault[r] = "none" => result[r] = Alone(r) )

\* C19 witness: one request has replied the pending block and the other, on
\* the same node, a block of the store.
C19_Witness ==
    \E r, q \in Pair :
        /\ pc[r] = "Done" /\ AsksPending(r)
        /\ pc[q] = "Done" /\ spawned[q] /\ conn[q] = "released"

====
